---- MODULE Spec2Model ----
(***************************************************************************)
(* Model of c3w4_siamese_nets/C3_W4_1siamese.ipynb: the L2 normalisation   *)
(* helpers normalize / normalize2, the layer-listing helper show_layers,   *)
(* the Trax Serial / Parallel composition and the PyTorch Sub / Siamese    *)
(* modules.                                                                *)
(*                                                                         *)
(* Tensors hold binary floating-point numbers.  The arithmetic is IEEE-754 *)
(* style (round to nearest, ties to even; gradual underflow; overflow to   *)
(* infinity; NaN for 0/0, inf-inf, 0*inf) at a precision of Prec bits and  *)
(* an exponent range Emin..Emax: float32 is Prec = 24, Emax = 127, and the *)
(* model checks a narrower format of the same shape.  Signed zeros are not *)
(* distinguished (no modelled expression divides by a negative zero).      *)
(***************************************************************************)
EXTENDS Integers, Sequences, FiniteSets, TLC

\* ---------------------------------------------------------------- bounds
\* Significand precision in bits (24 in float32).
Prec == 4
\* Largest exponent of a normal number (127 in float32).
Emax == 3
\* Smallest exponent of a normal number, as in IEEE-754: emin = 1 - emax.
Emin == 1 - Emax
\* Exponent of the unit in the last place of the subnormal numbers.
Etiny == Emin - Prec + 1
\* Length of a row (last axis) of the tensors given to normalize.
Dim == 2

\* ------------------------------------------------------------ arithmetic
Max(a, b) == IF a >= b THEN a ELSE b
Min(a, b) == IF a <= b THEN a ELSE b
AbsI(n) == IF n < 0 THEN -n ELSE n
SgnI(n) == IF n < 0 THEN -1 ELSE 1

RECURSIVE BitLen(_)
BitLen(a) == IF a = 0 THEN 0 ELSE 1 + BitLen(a \div 2)

RECURSIVE ISqrt(_)
\* floor(sqrt(n)) for n >= 0
ISqrt(n) ==
  IF n < 2 THEN n
  ELSE LET s == 2 * ISqrt(n \div 4)
       IN IF (s + 1) * (s + 1) <= n THEN s + 1 ELSE s

\* A float is a record: k = "fin" with value m * 2^e (m a signed integer,
\* |m| < 2^Prec, e >= Etiny, and |m| >= 2^(Prec-1) unless e = Etiny);
\* k = "inf" with sign m; k = "nan".
Fin(m, e) == [k |-> "fin", m |-> m, e |-> e]
Zero == Fin(0, 0)
Inf(s) == [k |-> "inf", m |-> s, e |-> 0]
NaN == [k |-> "nan", m |-> 0, e |-> 0]
IsFin(x) == x.k = "fin"
IsNaN(x) == x.k = "nan"
IsInf(x) == x.k = "inf"
IsZero(x) == x.k = "fin" /\ x.m = 0

\* The float nearest to sgn * a * 2^e (a >= 0), ties to even; the low bit of
\* a may be a sticky bit when a has at least Prec + 3 bits.
Round(sgn, a, e) ==
  IF a = 0 THEN Zero
  ELSE LET L == BitLen(a)
           s == Max(L - Prec, Etiny - e)
       IN IF s <= 0
          THEN IF e + s > Emax - Prec + 1 THEN Inf(sgn)
               ELSE Fin(sgn * a * 2^(-s), e + s)
          ELSE IF s > L + 1 THEN Zero
          ELSE LET q  == a \div 2^s
                   r  == a % 2^s
                   h  == 2^(s - 1)
                   up == r > h \/ (r = h /\ q % 2 = 1)
                   q2 == IF up THEN q + 1 ELSE q
                   m2 == IF q2 = 2^Prec THEN 2^(Prec - 1) ELSE q2
                   e2 == IF q2 = 2^Prec THEN e + s + 1 ELSE e + s
               IN IF m2 = 0 THEN Zero
                  ELSE IF e2 > Emax - Prec + 1 THEN Inf(sgn)
                  ELSE Fin(sgn * m2, e2)

FromInt(n) == Round(SgnI(n), AbsI(n), 0)
One == FromInt(1)

\* The operators below take their arguments through a one-element set, so
\* that an argument expression is evaluated once however often it is used.
FMulV(x, y) ==
  IF IsNaN(x) \/ IsNaN(y) THEN NaN
  ELSE IF IsInf(x) \/ IsInf(y)
       THEN IF IsZero(x) \/ IsZero(y) THEN NaN
            ELSE Inf(SgnI(x.m) * SgnI(y.m))
  ELSE Round(SgnI(x.m) * SgnI(y.m), AbsI(x.m) * AbsI(y.m), x.e + y.e)
\* a * b, rounded
FMul(a, b) == CHOOSE r \in {FMulV(x, y) : x \in {a}, y \in {b}} : TRUE

FAddV(x, y) ==
  IF IsNaN(x) \/ IsNaN(y) THEN NaN
  ELSE IF IsInf(x) /\ IsInf(y) THEN (IF x.m = y.m THEN x ELSE NaN)
  ELSE IF IsInf(x) THEN x
  ELSE IF IsInf(y) THEN y
  ELSE IF x.m = 0 THEN y
  ELSE IF y.m = 0 THEN x
  ELSE LET e == Min(x.e, y.e)
           n == x.m * 2^(x.e - e) + y.m * 2^(y.e - e)
       IN Round(SgnI(n), AbsI(n), e)
\* a + b, rounded
FAdd(a, b) == CHOOSE r \in {FAddV(x, y) : x \in {a}, y \in {b}} : TRUE

FDivV(x, y) ==
  IF IsNaN(x) \/ IsNaN(y) THEN NaN
  ELSE IF IsInf(x) THEN (IF IsInf(y) THEN NaN ELSE Inf(x.m * SgnI(y.m)))
  ELSE IF IsInf(y) THEN Zero
  ELSE IF y.m = 0 THEN (IF x.m = 0 THEN NaN ELSE Inf(SgnI(x.m)))
  ELSE IF x.m = 0 THEN Zero
  ELSE LET K   == 2 * Prec + 2
           num == AbsI(x.m) * 2^K
           q   == num \div AbsI(y.m)
           st  == IF num % AbsI(y.m) = 0 THEN 0 ELSE 1
       IN Round(SgnI(x.m) * SgnI(y.m), 2 * q + st, x.e - y.e - K - 1)
\* a / b, rounded
FDiv(a, b) == CHOOSE r \in {FDivV(x, y) : x \in {a}, y \in {b}} : TRUE

FSqrtV(x) ==
  IF IsNaN(x) THEN NaN
  ELSE IF IsInf(x) THEN (IF x.m > 0 THEN x ELSE NaN)
  ELSE IF x.m = 0 THEN Zero
  ELSE IF x.m < 0 THEN NaN
  ELSE LET t0 == Max(0, 2 * Prec + 4 - BitLen(x.m))
           t  == IF (x.e - t0) % 2 = 0 THEN t0 ELSE t0 + 1
           n  == x.m * 2^t
           r  == ISqrt(n)
           st == IF r * r = n THEN 0 ELSE 1
       IN Round(1, 2 * r + st, ((x.e - t) \div 2) - 1)
\* sqrt(a), rounded
FSqrt(a) == CHOOSE r \in {FSqrtV(x) : x \in {a}} : TRUE

FAbsV(x) == IF IsNaN(x) THEN NaN ELSE [x EXCEPT !.m = AbsI(x.m)]
\* |a|
FAbs(a) == CHOOSE r \in {FAbsV(x) : x \in {a}} : TRUE

\* The value of a finite float in units of 2^Etiny (an integer).
Units(x) == x.m * 2^(x.e - Etiny)

\* ---------------------------------------------------------------- tensors
\* A tensor of rank 2 is a sequence of rows, a row a sequence of floats.
\* Tup(f) is the sequence f with its elements computed (f \o <<>> = f).
Tup(f) == f \o <<>>
RECURSIVE FSumFrom(_, _, _)
\* acc + v[i] + v[i+1] + ... , added left to right
FSumFrom(v, i, acc) ==
  IF i > Len(v) THEN acc ELSE FSumFrom(v, i + 1, FAdd(acc, v[i]))

\* np.sum / torch.sum along the last axis of one row
FSum(v) == FSumFrom(v, 1, Zero)

\* x * x, elementwise
Square(row) == Tup([i \in DOMAIN row |-> FMul(row[i], row[i])])

\* Denominator without the square root (a slip that leaves np.sqrt out).
Denominator_nosqrt(row) == FSum(Square(row))

\* Denominator with a guard against a zero norm added under the root.
Denominator_eps(row) == FSqrt(FAdd(FSum(Square(row)), Fin(1, Etiny)))

\* np.sqrt(np.sum(x * x, axis=-1, keepdims=True)) for one row: the divisor
Denominator(row) == FSqrt(FSum(Square(row)))

\* np.linalg.norm(x, axis=-1, keepdims=True) for one row, as documented by
\* numpy for the 2-norm of a vector: sum(abs(x)**2)**(1/2)
linalg_norm(row) ==
  FSqrt(FSum(Tup([i \in DOMAIN row |-> FMul(FAbs(row[i]), FAbs(row[i]))])))

\* x / d with d broadcast along the last axis
DivRow(row, d0) ==
  CHOOSE r \in {Tup([i \in DOMAIN row |-> FDiv(row[i], d)]) : d \in {d0}} : TRUE

\* def normalize(x): return x / np.sqrt(np.sum(x * x, axis=-1, keepdims=True))
normalize(x) == Tup([r \in DOMAIN x |-> DivRow(x[r], Denominator(x[r]))])

\* normalize with the denominator replaced by np.linalg.norm(...)
normalize_linalg(x) == Tup([r \in DOMAIN x |-> DivRow(x[r], linalg_norm(x[r]))])

\* torch.sqrt(torch.sum(x * x, axis=-1, keepdims=True)) for one row
Denominator2(row) ==
  FSqrt(FSum(Tup([i \in DOMAIN row |-> FMul(row[i], row[i])])))

\* normalize2 summing over the whole tensor instead of the last axis.
normalize2_allaxes(x) ==
  LET d == FSqrt(FSum(Tup([r \in DOMAIN x |-> FSum(Square(x[r]))])))
  IN Tup([r \in DOMAIN x |-> DivRow(x[r], d)])

\* def normalize2(x): return x / torch.sqrt(torch.sum(x * x, axis=-1, keepdims=True))
normalize2(x) == Tup([r \in DOMAIN x |-> DivRow(x[r], Denominator2(x[r]))])

\* (norm_tensor**2).sum(axis=1) for one row
SumSq(row) == FSum(Square(row))

\* ------------------------------------------------------------ input sets
\* Significands of the normal numbers.
Mantissas == 2^(Prec - 1) .. (2^Prec - 1)
\* The largest finite float.
MaxFloat == Fin(2^Prec - 1, Emax - Prec + 1)
\* The smallest positive (subnormal) float.
MinFloat == Fin(1, Etiny)
\* The smallest positive normal float.
MinNormal == Fin(2^(Prec - 1), Etiny)
\* Entries given to normalize: zero, the smallest subnormal, the smallest
\* normal and the largest float, an infinity, NaN, and every significand
\* in [1, 2) and in (-4, -2].
InputVals ==
  {Zero, MinFloat, MinNormal, MaxFloat, Inf(1), NaN}
    \cup {Fin(m, 1 - Prec) : m \in Mantissas}
    \cup {Fin(-m, 2 - Prec) : m \in Mantissas}
Rows == [1..Dim -> InputVals]
\* Entries and rows of the two-row tensors.
PairVals == {Zero, One, MinFloat, Fin(-(2^Prec - 1), 2 - Prec)}
PairRows == [1..Dim -> PairVals]
Tensors ==
  {<<r>> : r \in Rows} \cup {<<r, s>> : r \in PairRows, s \in PairRows}

\* ------------------------------------------------------------ Trax layers
\* A Trax layer object: its identity, its printed name and its sublayers.
Layer(id, name, subs) == [id |-> id, name |-> name, sublayers |-> subs]
\* tl.Embedding(vocab_size=500, d_feature=128)
TraxEmbedding == Layer(1, "Embedding_500_128", <<>>)
\* tl.LSTM(128)
TraxLSTM == Layer(2, "LSTM_128", <<>>)
\* tl.Mean(axis=1)
TraxMean == Layer(3, "Mean", <<>>)
\* tl.Fn('Normalize', lambda x: normalize(x))
TraxNormalize == Layer(4, "Normalize", <<>>)
\* LSTM = tl.Serial(Embedding, LSTM, Mean, Normalize)
LSTM == Layer(5, "Serial", <<TraxEmbedding, TraxLSTM, TraxMean, TraxNormalize>>)
\* Siamese = tl.Parallel(LSTM, LSTM)
TraxSiamese == Layer(6, "Parallel", <<LSTM, LSTM>>)

\* ------------------------------------------------------------ show_layers
\* Longest sublayer list of the other models given to show_layers.
MaxLayers == 2
LeafLayers == {TraxEmbedding, TraxLSTM, TraxMean, TraxNormalize}
RECURSIVE SeqsUpTo(_, _)
SeqsUpTo(S, n) ==
  IF n = 0 THEN {<<>>}
  ELSE LET shorter == SeqsUpTo(S, n - 1)
       IN shorter \cup {Append(q, e) : q \in shorter, e \in S}
\* The models shown: the notebook's two, and every Serial of up to MaxLayers
\* leaf layers (the empty one included).
ShowModels ==
  {TraxSiamese, LSTM} \cup {Layer(0, "Serial", q) : q \in SeqsUpTo(LeafLayers, MaxLayers)}
Prefixes == {"Parallel.sublayers", "Serial.sublayers"}

NoLayer == Layer(-1, "", <<>>)
\* print(f"Total layers: {len(model.sublayers)}\n")
TotalLine(n) == [kind |-> "total", n |-> n, label |-> <<"", "", -1>>, layer |-> NoLayer]
\* print('========')
SepLine == [kind |-> "sep", n |-> -1, label |-> <<"", "", -1>>, layer |-> NoLayer]
\* print(f'{layer_prefix}_{i}: {model.sublayers[i]}\n')
LayerLine(prefix, i, l) == [kind |-> "layer", n |-> -1, label |-> <<prefix, "_", i>>, layer |-> l]

\* A range that starts at 1 (an off-by-one slip).
ShowRange_from1(m) == [k \in 1..(Len(m.sublayers) - 1) |-> k]
\* range(len(model.sublayers)): the indices 0, 1, ..., n-1 in order
ShowRange(m) == [k \in 1..Len(m.sublayers) |-> k - 1]

\* ------------------------------------------------------- network inputs
\* Token ids fed to the encoders (0 is the padding id of the notebook's x1, x2).
Tokens == {0, 1}
\* Tokens per sequence (axis 1 of the input batch).
SeqLen == 2
\* Sequences per batch (axis 0): x1 and x2 hold two sequences each.
Batch == 2
\* model_dimension of Sub(5, 3) / Siamese(5, 3).
ModelDim == 3
\* The token sequences fed to the encoders: a first token and a repeated
\* second one (every sequence when SeqLen = 2)
InputSeqs == {[t \in 1..SeqLen |-> IF t = 1 THEN a ELSE b] : a \in Tokens, b \in Tokens}
Batches == [1..Batch -> InputSeqs]

\* n / 4 as a float
Quarter(n) == FDiv(FromInt(n), FromInt(4))
Half == Quarter(2)

\* ------------------------------------------------------------ nn.Module
\* A module holds its own parameters and its registered submodules, both
\* keyed by attribute name.
Module(params, modules) == [params |-> params, modules |-> modules]
NoModule == Module(<<>>, <<>>)

RECURSIVE named_parameters(_)
\* Module.named_parameters(): the dotted names, as paths
named_parameters(m) ==
  {<<n>> : n \in DOMAIN m.params}
    \cup UNION {{<<c>> \o q : q \in named_parameters(m.modules[c])} : c \in DOMAIN m.modules}

\* nn.Embedding(num_embeddings, embedding_dim)
Embedding(weight) == Module([weight |-> weight], <<>>)
\* nn.LSTM(input_size, hidden_size): one layer, gates stacked i, f, g, o
LSTMModule(wih, whh, bih, bhh) ==
  Module([weight_ih_l0 |-> wih, weight_hh_l0 |-> whh,
          bias_ih_l0 |-> bih, bias_hh_l0 |-> bhh], <<>>)
\* Sub.__init__
Sub(embed, lstm) == Module(<<>>, [embed |-> embed, lstm |-> lstm])
\* Siamese.__init__: self.sub = Sub(vocab_size, model_dimension)
Siamese(sub) == Module(<<>>, [sub |-> sub])

\* Initial weights.  The constructors draw them at random; the model draws
\* them from these: embedding tables ...
ZeroVec == [d \in 1..ModelDim |-> Zero]
EmbedTables ==
  { [t \in Tokens |-> ZeroVec],
    [t \in Tokens |-> [d \in 1..ModelDim |-> Quarter((2 * t - 1) * (d + 1))]],
    [t \in Tokens |-> [d \in 1..ModelDim |-> Quarter(t * (5 - 2 * d))]] }
\* ... and LSTM weights: every gate block of the input weights the identity,
\* every gate block of the recurrent weights zero or the identity
ZeroMat == [r \in 1..(4 * ModelDim) |-> ZeroVec]
EyeMat ==
  [r \in 1..(4 * ModelDim) |->
     [d \in 1..ModelDim |-> IF (r - 1) % ModelDim = d - 1 THEN One ELSE Zero]]
ZeroBias == [r \in 1..(4 * ModelDim) |-> Zero]
LSTMInits ==
  {LSTMModule(wih, whh, ZeroBias, ZeroBias) : wih \in {EyeMat}, whh \in {ZeroMat, EyeMat}}
SubInits == {Sub(Embedding(e), l) : e \in EmbedTables, l \in LSTMInits}

\* ---------------------------------------------------------------- layers
FLe(a, b) ==
  IF IsInf(a) THEN (a.m < 0 \/ a = b)
  ELSE IF IsInf(b) THEN b.m > 0
  ELSE Units(a) <= Units(b)
Clamp(v, lo, hi) ==
  IF IsNaN(v) THEN NaN ELSE IF FLe(v, lo) THEN lo ELSE IF FLe(hi, v) THEN hi ELSE v
\* The gate activations.  exp is not expressible here: the logistic function
\* and tanh are replaced by their piecewise-linear forms, which keep
\* sigmoid(0) = 1/2, tanh(0) = 0, monotonicity and the ranges [0,1], [-1,1].
sigmoid(v) == Clamp(FAdd(FMul(v, Quarter(1)), Half), Zero, One)
tanh(v) == Clamp(v, FromInt(-1), One)

Dot(a, b) == FSum(Tup([k \in DOMAIN a |-> FMul(a[k], b[k])]))

\* One step of the LSTM cell on the input vector xv from the state [h, c]
LSTMCellV(p, xv, st) ==
  LET H == ModelDim
      gate(r) == FAdd(FAdd(Dot(p.weight_ih_l0[r], xv), p.bias_ih_l0[r]),
                      FAdd(Dot(p.weight_hh_l0[r], st.h), p.bias_hh_l0[r]))
      cell(k) == FAdd(FMul(sigmoid(gate(H + k)), st.c[k]),
                      FMul(sigmoid(gate(k)), tanh(gate(2 * H + k))))
  IN CHOOSE r \in
       {[h |-> Tup([k \in 1..H |-> FMul(sigmoid(gate(3 * H + k)), tanh(c2[k]))]),
         c |-> c2] : c2 \in {Tup([k \in 1..H |-> cell(k)])}} : TRUE
LSTMCell(p, xv0, st0) ==
  CHOOSE r \in {LSTMCellV(p, xv, st) : xv \in {xv0}, st \in {st0}} : TRUE

RECURSIVE RunFrom(_, _, _, _, _)
RunFrom(p, seq, k, st, outs) ==
  IF k > Len(seq) THEN outs
  ELSE CHOOSE r \in
         {RunFrom(p, seq, k + 1, st2, Append(outs, st2.h)) :
            st2 \in {LSTMCell(p, seq[k], st)}} : TRUE
\* The hidden states of one sequence of input vectors, from a zero state
RunLSTM(p, seq0) ==
  CHOOSE r \in
    {RunFrom(p, seq, 1, [h |-> ZeroVec, c |-> ZeroVec], <<>>) : seq \in {seq0}} : TRUE

\* An LSTM that takes axis 0 as the batch and axis 1 as time (batch_first).
lstm_batch_first(p, v) == Tup([b \in DOMAIN v |-> RunLSTM(p, v[b])])

\* self.lstm(x) for nn.LSTM built without batch_first: the input is read as
\* (seq_len, batch, features), so time runs along axis 0 and the entries of
\* axis 1 are the independent sequences
lstm_forward(p, v) ==
  CHOOSE r \in
    {Tup([l \in DOMAIN v |-> Tup([n \in DOMAIN v[1] |-> runs[n][l]])]) :
       runs \in {Tup([n \in DOMAIN v[1] |->
                        RunLSTM(p, Tup([l \in DOMAIN v |-> v[l][n]]))])}} : TRUE

\* self.embed(x): the rows of the table picked by the token ids
embed_forward(p, v) ==
  Tup([b \in DOMAIN v |-> Tup([t \in DOMAIN v[b] |-> p.weight[v[b][t]]])])

\* x.mean(axis=1) of a rank-3 tensor: the sum along axis 1 over its length
mean_axis1(v) ==
  Tup([b \in DOMAIN v |->
     Tup([d \in 1..ModelDim |->
        FDiv(FSum(Tup([n \in DOMAIN v[b] |-> v[b][n][d]])), FromInt(Len(v[b])))])])

\* Sub.forward without its last statement.
SubStatements_nonorm == <<"embed", "lstm", "mean">>
\* The statements of Sub.forward in program order
SubStatements == <<"embed", "lstm", "mean", "normalize2">>

\* One statement of Sub.forward applied to the local x
SubStatementV(name, sub, v) ==
  CASE name = "embed" -> embed_forward(sub.modules.embed.params, v)
    [] name = "lstm" -> lstm_forward(sub.modules.lstm.params, v)
    [] name = "mean" -> mean_axis1(v)
    [] name = "normalize2" -> normalize2(v)
SubStatement(name, sub, v0) ==
  CHOOSE r \in {SubStatementV(name, sub, v) : v \in {v0}} : TRUE

RECURSIVE RunStatements(_, _, _, _)
RunStatements(stmts, k, sub, v) ==
  IF k > Len(stmts) THEN v
  ELSE CHOOSE r \in
         {RunStatements(stmts, k + 1, sub, v2) :
            v2 \in {SubStatement(stmts[k], sub, v)}} : TRUE
\* Sub.forward(x)
SubForward(sub, v) == RunStatements(SubStatements, 1, sub, v)
\* The value of the local x of Sub.forward when its last statement starts
SubPooled(sub, v) ==
  RunStatements(SubSeq(SubStatements, 1, Len(SubStatements) - 1), 1, sub, v)

\* A Trax layer applied to its input, with the weights w held for it.  Trax
\* recurrent layers take (batch, time, features).
TraxApplyV(layer, w, v) ==
  CASE layer.name = "Embedding_500_128" -> embed_forward(w.modules.embed.params, v)
    [] layer.name = "LSTM_128" -> lstm_batch_first(w.modules.lstm.params, v)
    [] layer.name = "Mean" -> mean_axis1(v)
    [] layer.name = "Normalize" -> normalize(v)
TraxApply(layer, w, v0) ==
  CHOOSE r \in {TraxApplyV(layer, w, v) : v \in {v0}} : TRUE

RECURSIVE SerialFrom(_, _, _, _)
SerialFrom(serial, k, w, v) ==
  IF k > Len(serial.sublayers) THEN v
  ELSE CHOOSE r \in
         {SerialFrom(serial, k + 1, w, v2) :
            v2 \in {TraxApply(serial.sublayers[k], w, v)}} : TRUE
\* tl.Serial: the sublayers applied in list order
SerialApply(serial, w, v) == SerialFrom(serial, 1, w, v)

\* matrix product a @ b for rank-2 tensors
MatMul(a, b) ==
  Tup([i \in DOMAIN a |-> Tup([j \in DOMAIN b[1] |->
     FSum(Tup([k \in DOMAIN b |-> FMul(a[i][k], b[k][j])]))])])
\* The operand left as it is.
Transpose_none(b) == b
\* b.T
Transpose(b) == Tup([j \in DOMAIN b[1] |-> Tup([i \in DOMAIN b |-> b[i][j]])])
\* A similarity that compares the first argument with itself.
cosine_similarity_self(a, b) == MatMul(a, Transpose(a))
\* def cosine_similarity(x1, x2): return x1 @ x2.T
cosine_similarity(a0, b0) ==
  CHOOSE r \in {MatMul(a, bt) : a \in {a0}, bt \in {Transpose(b0)}} : TRUE

\* The encoder of the second branch built as a separate Sub: other weights.
Branch2_other(m) == CHOOSE w \in SubInits : w # m.modules.sub
\* x1 = self.sub(x1): the module the first branch calls
Branch1(m) == m.modules.sub
\* x2 = self.sub(x2): the module the second branch calls
Branch2(m) == m.modules.sub

\* Siamese.forward(x1, x2)
SiameseForward(m, a, b) ==
  cosine_similarity(SubForward(Branch1(m), a), SubForward(Branch2(m), b))

\* The weights Trax holds for a layer object: one set per object.
TraxWeights(layer, w) ==
  IF layer.id = LSTM.id THEN w ELSE CHOOSE o \in SubInits : o # w
\* tl.Parallel: sublayer k applied to input k; the outputs are returned side
\* by side
ParallelApply(par, w, ins) ==
  Tup([k \in DOMAIN par.sublayers |->
     SerialApply(par.sublayers[k], TraxWeights(par.sublayers[k], w), ins[k])])

\* ------------------------------------------------------------------ state
VARIABLES
  fn,   \* the function applied by the cell run: "none" before it has run
  x,    \* its argument (tensor / meanl in the notebook)
  y,    \* its result (norm_tensor in the notebook)
  sl_pc,         \* show_layers: "idle", "loop" or "done"
  model,         \* show_layers: its model argument
  layer_prefix,  \* show_layers: its layer_prefix argument
  rng,           \* show_layers: the range the for loop iterates
  it,            \* show_layers: position of the loop in rng
  out,           \* show_layers: the lines printed so far
  siam,    \* the constructed Siamese module (its Sub holds the weights)
  fw,      \* encoder call: "none", or the framework whose encoder runs
  stage,   \* encoder call: number of stages applied so far
  vals,    \* encoder call: the input followed by each stage's result
  trace,   \* encoder call: the names of the stages applied, in order
  net,     \* Siamese call: "none", "torch" or "trax"
  x1,      \* Siamese call: first input batch
  x2,      \* Siamese call: second input batch
  enc1,    \* Siamese call: output of the first branch
  enc2,    \* Siamese call: output of the second branch
  output   \* Siamese call: what the model returned

normVars == <<fn, x, y>>
showVars == <<sl_pc, model, layer_prefix, rng, it, out>>
subVars == <<fw, stage, vals, trace>>
siamVars == <<net, x1, x2, enc1, enc2, output>>
vars == <<normVars, showVars, siam, subVars, siamVars>>

Init ==
  /\ fn = "none"
  /\ x = <<>>
  /\ y = <<>>
  /\ sl_pc = "idle"
  /\ model = NoLayer
  /\ layer_prefix = ""
  /\ rng = <<>>
  /\ it = 1
  /\ out = <<>>
  /\ siam = NoModule
  /\ fw = "none"
  /\ stage = 0
  /\ vals = <<>>
  /\ trace = <<>>
  /\ net = "none"
  /\ x1 = <<>>
  /\ x2 = <<>>
  /\ enc1 = <<>>
  /\ enc2 = <<>>
  /\ output = [kind |-> "none", val |-> <<>>]

\* norm_tensor = normalize(tensor)
CallNormalize ==
  /\ fn = "none"
  /\ \E t \in Tensors :
       /\ fn' = "normalize"
       /\ x' = t
       /\ y' = normalize(t)
  /\ UNCHANGED <<showVars, siam, subVars, siamVars>>

\* normalize2(meanl)
CallNormalize2 ==
  /\ fn = "none"
  /\ \E t \in Tensors :
       /\ fn' = "normalize2"
       /\ x' = t
       /\ y' = normalize2(t)
  /\ UNCHANGED <<showVars, siam, subVars, siamVars>>

NextNorm == CallNormalize \/ CallNormalize2

SpecNorm == Init /\ [][NextNorm]_vars

\* show_layers(model, layer_prefix) is called: the total is printed and the
\* for loop's range is built.
ShowCall ==
  /\ sl_pc = "idle"
  /\ \E m \in ShowModels, p \in Prefixes :
       /\ model' = m
       /\ layer_prefix' = p
       /\ out' = <<TotalLine(Len(m.sublayers))>>
       /\ rng' = ShowRange(m)
  /\ it' = 1
  /\ sl_pc' = "loop"
  /\ UNCHANGED <<normVars, siam, subVars, siamVars>>

\* One iteration of the for loop: the separator, then the labelled sublayer.
ShowIter ==
  /\ sl_pc = "loop"
  /\ it <= Len(rng)
  /\ LET i == rng[it]
     IN out' = out \o <<SepLine, LayerLine(layer_prefix, i, model.sublayers[i + 1])>>
  /\ it' = it + 1
  /\ UNCHANGED <<sl_pc, model, layer_prefix, rng, normVars, siam, subVars, siamVars>>

\* The range is exhausted: show_layers returns.
ShowReturn ==
  /\ sl_pc = "loop"
  /\ it > Len(rng)
  /\ sl_pc' = "done"
  /\ UNCHANGED <<model, layer_prefix, rng, it, out, normVars, siam, subVars, siamVars>>

NextShow == ShowCall \/ ShowIter \/ ShowReturn

SpecShow == Init /\ [][NextShow]_vars

\* The for loop is sequential code: an enabled step is eventually taken.
SpecShowFair == SpecShow /\ WF_vars(NextShow)

\* siam = Siamese(5, 3): the constructor builds the one Sub and draws its
\* initial weights.
Construct ==
  /\ siam = NoModule
  /\ \E w \in SubInits : siam' = Siamese(w)
  /\ UNCHANGED <<normVars, showVars, subVars, siamVars>>

Built == siam # NoModule

\* The stage names of the encoder of a framework, in the order it holds them:
\* the statements of Sub.forward, the sublayers of the Trax Serial.
Stages(f) ==
  IF f = "torch" THEN SubStatements
  ELSE Tup([k \in DOMAIN LSTM.sublayers |-> LSTM.sublayers[k].name])

\* sub(x) / LSTM(x) is called on a batch of token ids.
EncoderCall ==
  /\ Built
  /\ fw = "none"
  /\ \E f \in {"torch", "trax"}, v \in Batches :
       /\ fw' = f
       /\ vals' = <<v>>
  /\ stage' = 0
  /\ trace' = <<>>
  /\ UNCHANGED <<normVars, showVars, siam, siamVars>>

\* The next statement of Sub.forward / the next sublayer of the Serial runs.
EncoderStep ==
  /\ fw # "none"
  /\ stage < Len(Stages(fw))
  /\ LET name == Stages(fw)[stage + 1]
         cur  == vals[Len(vals)]
         sub  == siam.modules.sub
     IN /\ \E res \in {IF fw = "torch" THEN SubStatement(name, sub, cur)
                        ELSE TraxApply(LSTM.sublayers[stage + 1], sub, cur)} :
             vals' = Append(vals, res)
        /\ trace' = Append(trace, name)
  /\ stage' = stage + 1
  /\ UNCHANGED <<normVars, showVars, siam, fw, siamVars>>

NextSub == Construct \/ EncoderCall \/ EncoderStep

SpecSub == Init /\ [][NextSub]_vars

\* siam(x1, x2): Siamese.forward
ForwardTorch ==
  /\ Built
  /\ net = "none"
  /\ \E a \in Batches, b \in Batches :
       \E e1 \in {SubForward(Branch1(siam), a)}, e2 \in {SubForward(Branch2(siam), b)} :
          /\ x1' = a
          /\ x2' = b
          /\ enc1' = e1
          /\ enc2' = e2
          /\ output' = [kind |-> "similarity", val |-> cosine_similarity(e1, e2)]
  /\ net' = "torch"
  /\ UNCHANGED <<normVars, showVars, siam, subVars>>

\* The Trax Siamese = tl.Parallel(LSTM, LSTM) applied to (x1, x2)
ForwardTrax ==
  /\ Built
  /\ net = "none"
  /\ \E a \in Batches, b \in Batches :
       \E o \in {ParallelApply(TraxSiamese, siam.modules.sub, <<a, b>>)} :
          /\ x1' = a
          /\ x2' = b
          /\ enc1' = o[1]
          /\ enc2' = o[2]
          /\ output' = [kind |-> "pair", val |-> o]
  /\ net' = "trax"
  /\ UNCHANGED <<normVars, showVars, siam, subVars>>

NextSiam == Construct \/ ForwardTorch \/ ForwardTrax

SpecSiam == Init /\ [][NextSiam]_vars

\* ------------------------------------------------- claims about normalize
\* The divisor the applied function used for a row.
Divisor(f, row) == IF f = "normalize" THEN Denominator(row) ELSE Denominator2(row)
FiniteRow(row) == \A i \in DOMAIN row : IsFin(row[i])
HasNonZero(row) == \E i \in DOMAIN row : ~IsZero(row[i])
AllZero(row) == \A i \in DOMAIN row : IsZero(row[i])
\* The computed sum of squares is a normal number: finite, and neither zero
\* nor subnormal (no overflow, no underflow).
NormalSum(row) == LET s == SumSq(row) IN IsFin(s) /\ s.m >= 2^(Prec - 1)
Positive(d) == (IsFin(d) \/ IsInf(d)) /\ d.m > 0
\* |v - 1| <= n * 2^(-Prec) for a finite v
WithinOfOne(v, n) ==
  IsFin(v) /\ AbsI(Units(v) - Units(One)) * 2^Prec <= n * Units(One)

C9_NoGuardAsStated ==
  fn # "none" =>
    \A r \in DOMAIN x :
      /\ (FiniteRow(x[r]) /\ HasNonZero(x[r])) =>
            /\ Positive(Divisor(fn, x[r]))
            /\ \A i \in DOMAIN y[r] : ~IsNaN(y[r][i])
      /\ AllZero(x[r]) =>
            /\ IsZero(Divisor(fn, x[r]))
            /\ \A i \in DOMAIN y[r] : IsNaN(y[r][i])

\* C9 amended: a row of finite entries whose computed sum of squares is not
\* zero has a strictly positive divisor and a NaN-free result; a row whose
\* computed sum of squares is zero (all entries zero, or so small that every
\* square underflows to zero) has divisor exactly 0, and each output entry
\* is NaN (0/0) or an infinity (x/0): no epsilon, no error value.
C9_NoGuard ==
  fn # "none" =>
    \A r \in DOMAIN x :
      /\ (FiniteRow(x[r]) /\ ~IsZero(SumSq(x[r]))) =>
            /\ Positive(Divisor(fn, x[r]))
            /\ \A i \in DOMAIN y[r] : ~IsNaN(y[r][i])
      /\ (FiniteRow(x[r]) /\ IsZero(SumSq(x[r]))) =>
            /\ IsZero(Divisor(fn, x[r]))
            /\ \A i \in DOMAIN y[r] :
                 IF IsZero(x[r][i]) THEN IsNaN(y[r][i]) ELSE IsInf(y[r][i])

\* C9 witness: an all-zero row came out as NaN next to a row that was
\* normalised to finite values.
C9_Witness ==
  /\ fn # "none"
  /\ Len(x) = 2
  /\ AllZero(x[2]) /\ \A i \in DOMAIN y[2] : IsNaN(y[2][i])
  /\ HasNonZero(x[1]) /\ \A i \in DOMAIN y[1] : IsFin(y[1][i])

\* --------------------------------------------- claims about show_layers
\* C7: show_layers first prints the total n = len(model.sublayers), then one
\* entry per sublayer in the order 0..n-1, each labelled <prefix>_<i> with
\* sublayer i; it stops after n entries (none for an empty list), it does
\* not modify the model, and once called it returns.
C7_ShowLayers ==
  /\ [](sl_pc # "idle" =>
          /\ Len(out) = 1 + 2 * (it - 1)
          /\ out[1] = TotalLine(Len(model.sublayers))
          /\ \A k \in 0..(it - 2) :
               /\ out[2 * k + 2] = SepLine
               /\ out[2 * k + 3] = LayerLine(layer_prefix, k, model.sublayers[k + 1]))
  /\ [](sl_pc = "done" => Len(out) = 1 + 2 * Len(model.sublayers))
  /\ [][sl_pc # "idle" => model' = model]_vars
  /\ (sl_pc = "loop" ~> sl_pc = "done")

\* C7 witness: show_layers(LSTM, 'Serial.sublayers') has returned after
\* printing the total and its four entries.
C7_Witness ==
  /\ sl_pc = "done"
  /\ model = LSTM
  /\ layer_prefix = "Serial.sublayers"
  /\ Len(out) = 9
  /\ out[9] = LayerLine("Serial.sublayers", 3, TraxNormalize)

\* ------------------------------------------------ claims about the encoder
\* What a stage does, from the name the framework gives it
StageKind(name) ==
  CASE name \in {"embed", "Embedding_500_128"} -> "embedding"
    [] name \in {"lstm", "LSTM_128"} -> "recurrent"
    [] name \in {"mean", "Mean"} -> "mean-pool"
    [] name \in {"normalize2", "Normalize"} -> "normalize"
StageOrder == <<"embedding", "recurrent", "mean-pool", "normalize">>
\* Both encoders hold the four stages in the stated order, and a running
\* encoder has applied a prefix of them, each once, in that order.
StagesInOrder ==
  /\ \A f \in {"torch", "trax"} :
       /\ Len(Stages(f)) = Len(StageOrder)
       /\ \A k \in DOMAIN StageOrder : StageKind(Stages(f)[k]) = StageOrder[k]
  /\ fw # "none" =>
       /\ stage <= Len(StageOrder)
       /\ Len(trace) = stage
       /\ Len(vals) = stage + 1
       /\ \A k \in 1..stage : StageKind(trace[k]) = StageOrder[k]
EncoderDone == fw # "none" /\ stage = Len(StageOrder)

\* C5 as stated: the stages run in the order embedding, recurrent layer,
\* mean-pool, normalize, each once, in both frameworks, and every row of the
\* encoder output has a sum of squares equal to 1.
C5_AsStated ==
  /\ StagesInOrder
  /\ EncoderDone => \A r \in 1..Batch : SumSq(vals[5][r]) = One

\* C5 amended: the stages run in the order embedding, recurrent layer,
\* mean-pool, normalize, each once, in both frameworks; the encoder output
\* is the normalisation of the pooled value, so a row is a unit vector up to
\* rounding (within (2 * ModelDim + 4) * 2^(-Prec)) when the sum of squares
\* of the pooled row is a normal number, and is NaN when the pooled row is
\* all zero.
C5_StageOrder ==
  /\ StagesInOrder
  /\ EncoderDone =>
       \A r \in 1..Batch :
         /\ NormalSum(vals[4][r]) => WithinOfOne(SumSq(vals[5][r]), 2 * ModelDim + 4)
         /\ AllZero(vals[4][r]) => \A d \in 1..ModelDim : IsNaN(vals[5][r][d])

\* C5 witness: Sub.forward has run its four statements on a batch; one
\* output row is a unit vector up to rounding and the run is complete.
C5_Witness ==
  /\ EncoderDone
  /\ fw = "torch"
  /\ trace = SubStatements
  /\ \E r \in 1..Batch :
       NormalSum(vals[4][r]) /\ WithinOfOne(SumSq(vals[5][r]), 2 * ModelDim + 4)

\* Sub.forward reached with an all-zero pooled row: the output row is NaN.
ZeroPooledReached ==
  /\ EncoderDone
  /\ fw = "torch"
  /\ \E r \in 1..Batch :
       AllZero(vals[4][r]) /\ \A d \in 1..ModelDim : IsNaN(vals[5][r][d])

\* ------------------------------------------ claims about the Siamese model
\* The parameter names printed by the named_parameters cell, as paths
PrintedParameters ==
  { <<"sub", "embed", "weight">>, <<"sub", "lstm", "weight_ih_l0">>,
    <<"sub", "lstm", "weight_hh_l0">>, <<"sub", "lstm", "bias_ih_l0">>,
    <<"sub", "lstm", "bias_hh_l0">> }

\* C2: both branches of Siamese.forward are the one Sub held as self.sub,
\* the parameters of the model are exactly those of that Sub (one embedding
\* table, one LSTM weight and bias set), both entries of the Trax Parallel
\* are the same Serial object, and equal inputs give equal branch outputs.
C2_SharedWeights ==
  /\ Len(TraxSiamese.sublayers) = 2
  /\ TraxSiamese.sublayers[1] = LSTM
  /\ TraxSiamese.sublayers[2] = LSTM
  /\ Built =>
       /\ named_parameters(siam) = PrintedParameters
       /\ named_parameters(siam) =
            {<<"sub">> \o q : q \in named_parameters(siam.modules.sub)}
       /\ Branch1(siam) = siam.modules.sub
       /\ Branch2(siam) = siam.modules.sub
  /\ (net # "none" /\ x1 = x2) => enc1 = enc2

\* C2 witness: Siamese.forward ran on two equal batches whose rows differ,
\* and both branches returned the same finite encoding.
C2_Witness ==
  /\ net = "torch"
  /\ x1 = x2
  /\ x1[1] # x1[2]
  /\ enc1 = enc2
  /\ \A i \in 1..Batch : FiniteRow(enc1[i]) /\ HasNonZero(enc1[i])

C3_NaNReached ==
  /\ net = "torch"
  /\ x1 = x2
  /\ \E i \in 1..Batch :
       /\ AllZero(SubPooled(siam.modules.sub, x1)[i])
       /\ IsNaN(output.val[i][i])

\* C4 as stated: every model called Siamese returns the Batch x Batch matrix
\* whose entry [i][j] is the dot product of row i of the first encoding with
\* row j of the second.
C4_AsStated ==
  net # "none" =>
    /\ output.kind = "similarity"
    /\ DOMAIN output.val = 1..Batch
    /\ \A i \in 1..Batch :
         /\ DOMAIN output.val[i] = 1..Batch
         /\ \A j \in 1..Batch : output.val[i][j] = Dot(enc1[i], enc2[j])

\* C4 amended: the PyTorch Siamese.forward returns the Batch x Batch matrix
\* whose entry [i][j] is the dot product of row i of self.sub(x1) with row j
\* of self.sub(x2) (enc1 and enc2 hold these two values); the Trax Siamese, a Parallel, returns the pair of the two
\* branch outputs and computes no similarity.
C4_Combination ==
  /\ net = "torch" =>
       /\ output.kind = "similarity"
       /\ DOMAIN output.val = 1..Batch
       /\ \A i \in 1..Batch :
            /\ DOMAIN output.val[i] = 1..Batch
            /\ \A j \in 1..Batch : output.val[i][j] = Dot(enc1[i], enc2[j])
  /\ net = "trax" =>
       /\ output.kind = "pair"
       /\ output.val = <<enc1, enc2>>
       /\ enc1 = SerialApply(LSTM, siam.modules.sub, x1)
       /\ enc2 = SerialApply(LSTM, siam.modules.sub, x2)

\* C4 witness: the PyTorch model returned a matrix with finite entries that
\* are not all equal, for two different batches.
C4_Witness ==
  /\ net = "torch"
  /\ x1 # x2
  /\ \A i \in 1..Batch : FiniteRow(output.val[i])
  /\ output.val[1][1] # output.val[1][2]

\* The Trax model returned a pair of encodings.
C4_PairReached ==
  /\ net = "trax"
  /\ output.kind = "pair"
  /\ \A i \in 1..Batch : FiniteRow(enc1[i]) /\ FiniteRow(enc2[i])

\* C8 as stated: output row i of Sub.forward depends only on input row i:
\* two batches that agree in row i give the same output row i.
C8_RowsIndependent ==
  net = "torch" => \A i \in 1..Batch : x1[i] = x2[i] => enc1[i] = enc2[i]

\* Sub.forward gave two different finite encodings to the second row of two
\* batches that differ in the first row only.
C8_DependenceReached ==
  /\ net = "torch"
  /\ x1[1] # x2[1]
  /\ x1[2] = x2[2]
  /\ FiniteRow(enc1[2]) /\ FiniteRow(enc2[2])
  /\ enc1[2] # enc2[2]

\* The Trax encoder does treat the rows independently.
C8_TraxRowsIndependent ==
  net = "trax" => \A i \in 1..Batch : x1[i] = x2[i] => enc1[i] = enc2[i]

\* C10: Siamese.forward(x2, x1) is the transpose of Siamese.forward(x1, x2).
C10_Symmetric ==
  net = "torch" =>
    \A sw \in {SiameseForward(siam, x2, x1)} :
      \A i \in 1..Batch : \A j \in 1..Batch : output.val[i][j] = sw[j][i]

\* C10 witness: Siamese.forward ran on two different batches and returned a
\* finite matrix that is not symmetric itself.
C10_Witness ==
  /\ net = "torch"
  /\ x1 # x2
  /\ \A i \in 1..Batch : FiniteRow(output.val[i])
  /\ output.val[1][2] # output.val[2][1]

====
